---------------------------- MODULE Spec2Model ----------------------------
(***************************************************************************)
(* Detection-and-fallback engine of gps-modulator.                         *)
(*                                                                         *)
(* Numbers.  The code works in floating-point degrees, metres and seconds. *)
(* The model works in integers in a local frame at the reference latitude  *)
(* 60 N, where cos(lat) = 1/2:                                             *)
(*   - a latitude is its offset from 60 N, a longitude is absolute, both   *)
(*     in arc units: one unit is the angle that one metre subtends at the  *)
(*     Earth's centre, so degrees(d / R) of a distance d in metres is d;   *)
(*   - headings are whole degrees; sines and cosines are in thousandths,   *)
(*     and a displacement is rounded to the nearest whole unit;            *)
(*   - timestamps, speeds and accelerations are integers.                  *)
(* Python dicts are TLA+ records (functions on strings), so that key       *)
(* lookup with a default, key presence and truthiness are what they are in *)
(* the code.  A method is an operator from the object and the arguments to *)
(* [self |-> the object afterwards, ret |-> what it returns or raises].    *)
(***************************************************************************)
EXTENDS Integers, Sequences, FiniteSets, TLC

\* ------------------------------------------------------------------ bounds
MaxLat == 2
MaxTime == 1
MaxSpeed == 1
MaxSamples == 1
MaxUpdates == 2
MaxWindowSamples == 11
MaxOutageTime == 2
MaxOutageSamples == 2

\* ------------------------------------------------ Python values and dicts
None == [absent |-> TRUE]

Raised(e) == [raised |-> e]

IsRaised(r) == "raised" \in DOMAIN r

\* float('nan'), which every arithmetic operation hands on: a value outside
\* the range of every number of the model
NaN == -1000000000

IsNaN(x) == x = NaN

\* dict.get(key, default)
Get(d, key, default) == IF key \in DOMAIN d THEN d[key] ELSE default

\* bool(x) of a dict or None: None and the empty dict are falsy
Truthy(d) == d # None /\ DOMAIN d # {}

\* --------------------------------------------------------------- the inputs
\* sin(a) for a = 0 .. 90 degrees, in thousandths
SinTable ==
    <<0, 17, 35, 52, 70, 87, 105, 122, 139, 156, 174, 191, 208,
      225, 242, 259, 276, 292, 309, 326, 342, 358, 375, 391, 407, 423,
      438, 454, 469, 485, 500, 515, 530, 545, 559, 574, 588, 602, 616,
      629, 643, 656, 669, 682, 695, 707, 719, 731, 743, 755, 766, 777,
      788, 799, 809, 819, 829, 839, 848, 857, 866, 875, 883, 891, 899,
      906, 914, 921, 927, 934, 940, 946, 951, 956, 961, 966, 970, 974,
      978, 982, 985, 988, 990, 993, 995, 996, 998, 999, 999, 1000, 1000>>

\* 1000 * math.sin(math.radians(h)) and 1000 * math.cos(math.radians(h)), for
\* a heading of any whole number of degrees
Sin(h) ==
    LET a == h % 360
    IN IF a <= 90 THEN SinTable[a + 1]
       ELSE IF a <= 180 THEN SinTable[180 - a + 1]
       ELSE IF a <= 270 THEN 0 - SinTable[a - 180 + 1]
       ELSE 0 - SinTable[360 - a + 1]

Cos(h) == Sin(h + 90)

\* n thousandths, to the nearest whole unit
Thousandths(n) == (n + 500) \div 1000

\* 1 / cos(lat) at the reference latitude
SecLat(lat) == 2

\* the headings the callers supply: east and south
Headings == {90, 180}

Lats == 0 .. MaxLat

Lons == {0, 1}

Timestamps == 0 .. MaxTime

\* elapsed times, the non-positive ones included
DeltaTimes == (0 - 1) .. MaxTime

Speeds == 0 .. MaxSpeed

Accelerations == {1}

\* GeoFix records as the ingestion boundary hands them over
Fixes == [latitude : Lats, longitude : Lons, timestamp : Timestamps]

\* positions, in the canonical key spelling and in the short one
Positions == [latitude : Lats, longitude : Lons] \cup {[lat |-> 1, lon |-> 1]}

\* the anchors handle_fallback is given: a position, or None when the caller
\* has no trusted position
Anchors == Positions \cup {None}

\* IMU samples of the fallback manager: a heading, and optionally a velocity
\* and an acceleration
ImuSamples == [heading : Headings]
                \cup [heading : Headings, velocity : Speeds]
                \cup [heading : Headings, acceleration : Accelerations]
                \cup [heading : Headings, velocity : Speeds,
                      acceleration : Accelerations]

\* IMU samples of the validation engine: each carries heading and velocity
EngineImuSamples == [heading : Headings, velocity : Speeds]

\* nine-axis samples taken at time t: accelerating forward, not turning,
\* the field pointing east or south
NineAxisSamples(t) ==
    {[accel_x |-> 1, accel_y |-> 0, accel_z |-> 1,
      gyro_x |-> 0, gyro_y |-> 0, gyro_z |-> 0,
      mag_x |-> m[1], mag_y |-> m[2], mag_z |-> 0,
      timestamp |-> t] : m \in {<<0, 1>>, <<0 - 1, 0>>}}

\* the fixes given to the path corrector: two places, at any time
CorrectorFixes == {f \in Fixes : f.latitude + f.longitude = 1}

\* calibration data: two gyroscope readings at rest
GyroCalibration == [gyro |-> <<<<0, 0, 0>>, <<0, 0, 2>>>>]

\* what the callers of enable_imu_correction pass: no calibration data
Calibrations == {[absent |-> TRUE]}


\* ------------------------------------- gps_modulator/utils/gps_math.py
\* haversine: the squared distance, times four, between two points near the
\* reference latitude (a = (dphi/2)^2 + cos^2(60) (dlambda/2)^2, c = 2 sqrt a)
haversine(lat1, lon1, lat2, lon2) ==
    4 * (lat2 - lat1) * (lat2 - lat1) + (lon2 - lon1) * (lon2 - lon1)

\* A velocity is the pair [n, d] standing for sqrt(n / d), d > 0.
ZeroVelocity == [n |-> 0, d |-> 1]

compute_velocity(previous_point, present_point) ==
    IF previous_point = None THEN ZeroVelocity
    ELSE LET time_interval == present_point.timestamp - previous_point.timestamp
         IN IF time_interval <= 0 THEN ZeroVelocity
            ELSE LET prev_lat == Get(previous_point, "lat", Get(previous_point, "latitude", 0))
                     prev_lon == Get(previous_point, "lon", Get(previous_point, "longitude", 0))
                     curr_lat == Get(present_point, "lat", Get(present_point, "latitude", 0))
                     curr_lon == Get(present_point, "lon", Get(present_point, "longitude", 0))
                 IN [n |-> haversine(prev_lat, prev_lon, curr_lat, curr_lon),
                     d |-> 4 * time_interval * time_interval]

\* velocity > threshold, for a threshold >= 0
VelocityExceeds(velocity, threshold) ==
    velocity.n > threshold * threshold * velocity.d

\* --------------------------- gps_modulator/detectors/velocity_anomaly.py
ThresholdVelocity == 1

VelocityAnomalyDetector == [threshold_velocity |-> ThresholdVelocity, previous_point |-> None]

detect(self, present_point) ==
    IF self.previous_point = None
    THEN [self |-> [self EXCEPT !.previous_point = present_point], ret |-> FALSE]
    ELSE LET velocity == compute_velocity(self.previous_point, present_point)
         IN [self |-> [self EXCEPT !.previous_point = present_point],
             ret |-> VelocityExceeds(velocity, self.threshold_velocity)]

\* ------------------------------ gps_modulator/core/detection_pipeline.py
DetectionPipeline == [velocity_anomaly_detector |-> VelocityAnomalyDetector]

process_gps_point(self, present_point) ==
    LET d == detect(self.velocity_anomaly_detector, present_point)
    IN [self |-> [velocity_anomaly_detector |-> d.self],
        ret |-> [velocity_anomaly |-> d.ret, point |-> present_point]]

\* ------------------------------- gps_modulator/fallback/dead_reckoner.py
FallbackDeadReckoner(initial_position, initial_velocity) ==
    [position |-> initial_position, velocity |-> initial_velocity]

\* present_position.get on None raises AttributeError
FallbackDR_compute_next_position(present_position, heading, distance) ==
    IF present_position = None THEN Raised("AttributeError") ELSE
    LET lat == Get(present_position, "lat", Get(present_position, "latitude", 0))
        lon == Get(present_position, "lon", Get(present_position, "longitude", 0))
        delta_lat == Thousandths(distance * Cos(heading))
        delta_lon == Thousandths(distance * Sin(heading) * SecLat(lat))
    IN [latitude |-> lat + delta_lat, longitude |-> lon + delta_lon]

FallbackDR_update(self, imu_data, delta_time) ==
    LET velocity == IF "acceleration" \in DOMAIN imu_data
                    THEN self.velocity + imu_data.acceleration * delta_time
                    ELSE Get(imu_data, "velocity", self.velocity)
    IN IF "heading" \notin DOMAIN imu_data
       THEN [self |-> [self EXCEPT !.velocity = velocity], ret |-> Raised("KeyError")]
       ELSE LET distance == velocity * delta_time
                next_position == FallbackDR_compute_next_position(
                                     self.position, imu_data.heading, distance)
            IN IF IsRaised(next_position)
               THEN [self |-> [self EXCEPT !.velocity = velocity],
                     ret |-> next_position]
               ELSE [self |-> [position |-> next_position, velocity |-> velocity],
                     ret |-> next_position]

\* ----------------------------- gps_modulator/fallback/fallback_manager.py
FallbackManager == [fallback_active |-> FALSE, last_position |-> None, reckoner |-> None]

\* handle_fallback starting the reckoner at rest, whatever the sample says
handle_fallback_at_rest(self, present_position, imu_data, delta_time) ==
    IF ~self.fallback_active
    THEN LET u == FallbackDR_update(FallbackDeadReckoner(present_position, 0),
                                    imu_data, delta_time)
         IN [self |-> [fallback_active |-> TRUE,
                       last_position |-> present_position,
                       reckoner |-> u.self],
             ret |-> u.ret]
    ELSE [self |-> self, ret |-> None]

\* handle_fallback resuming from the position the manager last recorded
handle_fallback_resuming(self, present_position, imu_data, delta_time) ==
    IF ~self.fallback_active
    THEN LET anchor == IF self.last_position = None THEN present_position
                       ELSE self.last_position
             u == FallbackDR_update(
                      FallbackDeadReckoner(anchor, Get(imu_data, "velocity", 0)),
                      imu_data, delta_time)
         IN [self |-> [fallback_active |-> TRUE,
                       last_position |-> present_position,
                       reckoner |-> u.self],
             ret |-> u.ret]
    ELSE [self |-> self, ret |-> None]

handle_fallback(self, present_position, imu_data, delta_time) ==
    IF ~self.fallback_active
    THEN LET initial_velocity == Get(imu_data, "velocity", 0)
             u == FallbackDR_update(
                      FallbackDeadReckoner(present_position, initial_velocity),
                      imu_data, delta_time)
         IN [self |-> [fallback_active |-> TRUE,
                       last_position |-> present_position,
                       reckoner |-> u.self],
             ret |-> u.ret]
    ELSE [self |-> self, ret |-> None]

\* handle_gps_restored recording the position whatever the state
handle_gps_restored_always(self, next_gps_position) ==
    [self |-> [fallback_active |-> FALSE,
               last_position |-> next_gps_position,
               reckoner |-> None],
     ret |-> None]

handle_gps_restored(self, next_gps_position) ==
    IF self.fallback_active
    THEN [self |-> [fallback_active |-> FALSE,
                    last_position |-> next_gps_position,
                    reckoner |-> None],
          ret |-> None]
    ELSE [self |-> self, ret |-> None]

is_fallback_active(self) == self.fallback_active


\* ------------------- gps_modulator/core/geosignal_validation_engine.py
GeosignalValidationEngine(pipeline, manager) ==
    [detection_pipeline |-> pipeline, fallback_manager |-> manager, last_gps_point |-> None]

validate(self, gps_data, imu_data) ==
    LET p == process_gps_point(self.detection_pipeline, gps_data)
        is_spoofed == p.ret
    IN IF Truthy(is_spoofed)
       THEN LET present_position == [latitude |-> gps_data.latitude,
                                     longitude |-> gps_data.longitude]
                delta_time == IF Truthy(self.last_gps_point)
                                 /\ "timestamp" \in DOMAIN self.last_gps_point
                              THEN gps_data.timestamp - self.last_gps_point.timestamp
                              ELSE 1
                f == handle_fallback(self.fallback_manager, present_position,
                                     imu_data, delta_time)
                validated_position == f.ret
                after == [self EXCEPT !.detection_pipeline = p.self,
                                      !.fallback_manager = f.self]
            IN IF IsRaised(validated_position)
               THEN [self |-> after, ret |-> validated_position]
               ELSE IF validated_position = None
               THEN [self |-> after, ret |-> Raised("TypeError")]
               ELSE [self |-> after,
                     ret |-> [latitude |-> validated_position.latitude,
                              longitude |-> validated_position.longitude,
                              is_spoofed |-> TRUE,
                              source |-> "fallback",
                              timestamp |-> gps_data.timestamp]]
       ELSE [self |-> [self EXCEPT !.detection_pipeline = p.self,
                                   !.last_gps_point =
                                       [latitude |-> gps_data.latitude,
                                        longitude |-> gps_data.longitude,
                                        timestamp |-> gps_data.timestamp]],
             ret |-> [latitude |-> gps_data.latitude,
                      longitude |-> gps_data.longitude,
                      is_spoofed |-> FALSE,
                      source |-> "gps",
                      timestamp |-> gps_data.timestamp]]

\* --------------------------------- src/gps_modulator/utils/gps_math.py
\* haversine_distance, as haversine above: four times the squared distance
haversine_distance(lat1, lon1, lat2, lon2) ==
    4 * (lat2 - lat1) * (lat2 - lat1) + (lon2 - lon1) * (lon2 - lon1)

\* _parse_time_interval of two numeric timestamps
parse_time_interval(prev_ts, curr_ts) == curr_ts - prev_ts

\* compute_velocity: the canonical key spelling is looked up first
gps_math_compute_velocity(previous_point, current_point) ==
    IF previous_point = None THEN ZeroVelocity
    ELSE LET prev_lat == Get(previous_point, "latitude", Get(previous_point, "lat", 0))
             prev_lon == Get(previous_point, "longitude", Get(previous_point, "lon", 0))
             curr_lat == Get(current_point, "latitude", Get(current_point, "lat", 0))
             curr_lon == Get(current_point, "longitude", Get(current_point, "lon", 0))
             time_interval == parse_time_interval(previous_point.timestamp,
                                                  current_point.timestamp)
         IN IF time_interval <= 0 THEN ZeroVelocity
            ELSE [n |-> haversine_distance(prev_lat, prev_lon, curr_lat, curr_lon),
                  d |-> 4 * time_interval * time_interval]

\* ------------- src/gps_modulator/detectors/velocity_anomaly_detector.py
\* the thresholds detectors are constructed with
Thresholds == 0 .. ThresholdVelocity

\* the fixes of a detector's stream: canonical ones, and one in the short
\* key spelling
DetectorFixes ==
    Fixes \cup {[lat |-> MaxLat, lon |-> 0, timestamp |-> MaxTime]}

Detector(threshold_velocity) ==
    [threshold_velocity |-> threshold_velocity, previous_point |-> None]

\* detect, keeping the previous fix when it flags the current one
Detector_detect_keeping_baseline(self, current_point) ==
    IF self.previous_point = None
    THEN [self |-> [self EXCEPT !.previous_point = current_point], ret |-> FALSE]
    ELSE LET velocity == gps_math_compute_velocity(self.previous_point, current_point)
             anomaly == VelocityExceeds(velocity, self.threshold_velocity)
         IN [self |-> IF anomaly THEN self
                      ELSE [self EXCEPT !.previous_point = current_point],
             ret |-> anomaly]

\* detect, flagging a velocity that reaches the threshold
Detector_detect_inclusive(self, current_point) ==
    IF self.previous_point = None
    THEN [self |-> [self EXCEPT !.previous_point = current_point], ret |-> FALSE]
    ELSE LET velocity == gps_math_compute_velocity(self.previous_point, current_point)
         IN [self |-> [self EXCEPT !.previous_point = current_point],
             ret |-> velocity.n >= self.threshold_velocity
                                     * self.threshold_velocity * velocity.d]

\* detect, comparing the first fix of a stream with the origin
Detector_detect_from_origin(self, current_point) ==
    LET previous == IF self.previous_point = None
                    THEN [latitude |-> 0, longitude |-> 0,
                          timestamp |-> current_point.timestamp - 1]
                    ELSE self.previous_point
        velocity == gps_math_compute_velocity(previous, current_point)
    IN [self |-> [self EXCEPT !.previous_point = current_point],
        ret |-> VelocityExceeds(velocity, self.threshold_velocity)]

\* detect, dividing by a time interval it takes in absolute value
Detector_detect_unordered(self, current_point) ==
    IF self.previous_point = None
    THEN [self |-> [self EXCEPT !.previous_point = current_point], ret |-> FALSE]
    ELSE LET earlier == IF current_point.timestamp < self.previous_point.timestamp
                        THEN [current_point EXCEPT
                                 !.timestamp = 2 * self.previous_point.timestamp - @]
                        ELSE current_point
             velocity == gps_math_compute_velocity(self.previous_point, earlier)
         IN [self |-> [self EXCEPT !.previous_point = current_point],
             ret |-> VelocityExceeds(velocity, self.threshold_velocity)]

Detector_detect(self, current_point) ==
    IF self.previous_point = None
    THEN [self |-> [self EXCEPT !.previous_point = current_point], ret |-> FALSE]
    ELSE LET velocity == gps_math_compute_velocity(self.previous_point, current_point)
         IN [self |-> [self EXCEPT !.previous_point = current_point],
             ret |-> VelocityExceeds(velocity, self.threshold_velocity)]

Detector_reset(self) == [self EXCEPT !.previous_point = None]

\* ------------------- src/gps_modulator/correction/dead_reckoner.py
\* 180 degrees in arc units: pi * 6371000
HalfTurn == 20015087

DeadReckoner(initial_position, initial_velocity) ==
    [current_position |->
         [latitude |-> Get(initial_position, "latitude", Get(initial_position, "lat", 0)),
          longitude |-> Get(initial_position, "longitude", Get(initial_position, "lon", 0))],
     current_velocity |-> initial_velocity]

\* the spherical direct formula to first order in distance / R, then the
\* longitude normalisation ((lon + 180) % 360) - 180
compute_next_position(present_position, heading, distance) ==
    LET lat == Get(present_position, "latitude", Get(present_position, "lat", 0))
        lon == Get(present_position, "longitude", Get(present_position, "lon", 0))
        angular_distance == distance
        new_lat == lat + Thousandths(angular_distance * Cos(heading))
        new_lon == lon + Thousandths(angular_distance * Sin(heading) * SecLat(lat))
    IN IF IsNaN(heading) \/ IsNaN(lat) \/ IsNaN(lon)
       THEN [latitude |-> NaN, longitude |-> NaN]
       ELSE [latitude |-> new_lat,
             longitude |-> ((new_lon + HalfTurn) % (2 * HalfTurn)) - HalfTurn]

\* update, moving by the velocity it had before the sample
DeadReckoner_update_stale_velocity(self, imu_data, delta_time) ==
    LET velocity == IF "acceleration" \in DOMAIN imu_data
                    THEN self.current_velocity + imu_data.acceleration * delta_time
                    ELSE Get(imu_data, "speed", self.current_velocity)
    IN IF "heading" \notin DOMAIN imu_data
       THEN [self |-> [self EXCEPT !.current_velocity = velocity],
             ret |-> Raised("KeyError")]
       ELSE LET distance == self.current_velocity * delta_time
                next_position == compute_next_position(self.current_position,
                                                       imu_data.heading, distance)
            IN [self |-> [current_position |-> next_position,
                          current_velocity |-> velocity],
                ret |-> next_position]

DeadReckoner_update(self, imu_data, delta_time) ==
    LET velocity == IF "acceleration" \in DOMAIN imu_data
                    THEN self.current_velocity + imu_data.acceleration * delta_time
                    ELSE Get(imu_data, "speed", self.current_velocity)
    IN IF "heading" \notin DOMAIN imu_data
       THEN [self |-> [self EXCEPT !.current_velocity = velocity],
             ret |-> Raised("KeyError")]
       ELSE LET distance == velocity * delta_time
                next_position == compute_next_position(self.current_position,
                                                       imu_data.heading, distance)
            IN [self |-> [current_position |-> next_position,
                          current_velocity |-> velocity],
                ret |-> next_position]

\* --------------------- src/gps_modulator/correction/imu_handler.py
MaxHistory == 10

\* alpha = 0.8 as AlphaNum / AlphaDen
AlphaNum == 4

AlphaDen == 5

\* sqrt(a^2 + b^2), to whole units
Hypot(a, b) ==
    LET n == a * a + b * b
    IN CHOOSE r \in 0 .. n : r * r <= n /\ n < (r + 1) * (r + 1)

\* degrees(atan2(y, x)) on the axes and the diagonals
Atan2Deg(y, x) ==
    CASE y = 0 /\ x >= 0 -> 0
      [] y = 0 /\ x < 0 -> 180
      [] x = 0 /\ y > 0 -> 90
      [] x = 0 /\ y < 0 -> 0 - 90
      [] y = x /\ x > 0 -> 45
      [] y = x /\ x < 0 -> 0 - 135
      [] y = 0 - x /\ x > 0 -> 0 - 45
      [] y = 0 - x /\ x < 0 -> 135

\* np.mean(samples, axis=0), to whole units
Mean3(samples) ==
    LET Sum[i \in 0 .. Len(samples)] ==
            IF i = 0 THEN <<0, 0, 0>>
            ELSE <<Sum[i - 1][1] + samples[i][1],
                   Sum[i - 1][2] + samples[i][2],
                   Sum[i - 1][3] + samples[i][3]>>
        n == Len(samples)
    IN <<Sum[n][1] \div n, Sum[n][2] \div n, Sum[n][3] \div n>>

\* np.mean(heading_history), to whole degrees
MeanOf(history) ==
    LET Sum[i \in 0 .. Len(history)] ==
            IF i = 0 THEN 0 ELSE Sum[i - 1] + history[i]
    IN IF \E i \in 1 .. Len(history) : IsNaN(history[i])
       THEN NaN
       ELSE Sum[Len(history)] \div Len(history)

EnhancedIMUHandler ==
    [previous_imu_data |-> None,
     magnetic_declination |-> 0,
     accel_bias |-> <<0, 0, 0>>,
     gyro_bias |-> <<0, 0, 0>>,
     mag_bias |-> <<0, 0, 0>>,
     heading_history |-> <<>>,
     max_history |-> MaxHistory]

calibrate(self, calibration_data) ==
    [self EXCEPT
        !.accel_bias = IF "accel" \in DOMAIN calibration_data
                       THEN Mean3(calibration_data.accel) ELSE @,
        !.gyro_bias = IF "gyro" \in DOMAIN calibration_data
                      THEN Mean3(calibration_data.gyro) ELSE @,
        !.mag_bias = IF "mag" \in DOMAIN calibration_data
                     THEN Mean3(calibration_data.mag) ELSE @]

\* pitch and roll of an acceleration vector; normalising it first does not
\* change the angles of a vector that is not zero, and makes every
\* component of the zero vector 0 / 0, which numpy evaluates to nan
calculate_attitude(accel) ==
    IF accel = <<0, 0, 0>>
    THEN [pitch |-> NaN, roll |-> NaN]
    ELSE [pitch |-> Atan2Deg(accel[1], Hypot(accel[2], accel[3])),
          roll |-> Atan2Deg(accel[2], Hypot(accel[1], accel[3]))]

\* the tilt-compensated heading of a field along one horizontal axis, for a
\* roll of 0: mag_x is scaled by cos(pitch) > 0, mag_y is kept
calculate_heading(self, mag, pitch, roll) ==
    LET mag_x == mag[1]
        mag_y == mag[2]
        heading == Atan2Deg(mag_y, mag_x)
        positive == IF heading < 0 THEN heading + 360 ELSE heading
    IN IF IsNaN(pitch) \/ IsNaN(roll)
       THEN NaN
       ELSE (positive + self.magnetic_declination) % 360

\* samples one of whose readings is None instead of a number: one with
\* nothing else, one that also carries raw heading and speed
CorruptSample == [accel_x |-> None]

CorruptRawSample == [accel_x |-> None, heading |-> 90, speed |-> MaxSpeed]

\* filter_imu_data, never dropping the oldest heading
filter_imu_data_unbounded(self, timestamp, accel, gyro, mag, attitude, magnetic) ==
    LET dt == IF self.previous_imu_data # None
              THEN timestamp - self.previous_imu_data.timestamp ELSE 0
        blended == IF self.previous_imu_data # None /\ dt > 0
                   THEN LET gyro_heading == self.previous_imu_data.heading + gyro[3] * dt
                        IN IF IsNaN(self.previous_imu_data.heading) \/ IsNaN(magnetic)
                           THEN NaN
                           ELSE (AlphaNum * gyro_heading
                                   + (AlphaDen - AlphaNum) * magnetic) \div AlphaDen
                   ELSE magnetic
        appended == Append(self.heading_history, blended)
        history == appended
        imu_data == [acceleration_x |-> accel[1],
                     acceleration_y |-> accel[2],
                     acceleration_z |-> accel[3],
                     gyro_x |-> gyro[1], gyro_y |-> gyro[2], gyro_z |-> gyro[3],
                     mag_x |-> mag[1], mag_y |-> mag[2], mag_z |-> mag[3],
                     heading |-> MeanOf(history),
                     pitch |-> attitude.pitch,
                     roll |-> attitude.roll,
                     timestamp |-> timestamp]
    IN [self |-> [self EXCEPT !.heading_history = history,
                              !.previous_imu_data = imu_data],
        ret |-> imu_data]

\* the complementary filter, the moving average and the IMUData record of
\* process_imu_data, for the calibrated readings, their attitude and their
\* magnetic heading
filter_imu_data(self, timestamp, accel, gyro, mag, attitude, magnetic) ==
    LET dt == IF self.previous_imu_data # None
              THEN timestamp - self.previous_imu_data.timestamp ELSE 0
        blended == IF self.previous_imu_data # None /\ dt > 0
                   THEN LET gyro_heading == self.previous_imu_data.heading + gyro[3] * dt
                        IN IF IsNaN(self.previous_imu_data.heading) \/ IsNaN(magnetic)
                           THEN NaN
                           ELSE (AlphaNum * gyro_heading
                                   + (AlphaDen - AlphaNum) * magnetic) \div AlphaDen
                   ELSE magnetic
        appended == Append(self.heading_history, blended)
        history == IF Len(appended) > self.max_history THEN Tail(appended) ELSE appended
        imu_data == [acceleration_x |-> accel[1],
                     acceleration_y |-> accel[2],
                     acceleration_z |-> accel[3],
                     gyro_x |-> gyro[1], gyro_y |-> gyro[2], gyro_z |-> gyro[3],
                     mag_x |-> mag[1], mag_y |-> mag[2], mag_z |-> mag[3],
                     heading |-> MeanOf(history),
                     pitch |-> attitude.pitch,
                     roll |-> attitude.roll,
                     timestamp |-> timestamp]
    IN [self |-> [self EXCEPT !.heading_history = history,
                              !.previous_imu_data = imu_data],
        ret |-> imu_data]

\* None - self.accel_bias[0] raises TypeError
process_imu_data(self, raw_data) ==
    IF raw_data \in {CorruptSample, CorruptRawSample}
    THEN [self |-> self, ret |-> Raised("TypeError")]
    ELSE
    LET accel == <<Get(raw_data, "accel_x", 0) - self.accel_bias[1],
                   Get(raw_data, "accel_y", 0) - self.accel_bias[2],
                   Get(raw_data, "accel_z", 0) - self.accel_bias[3]>>
        gyro == <<Get(raw_data, "gyro_x", 0) - self.gyro_bias[1],
                  Get(raw_data, "gyro_y", 0) - self.gyro_bias[2],
                  Get(raw_data, "gyro_z", 0) - self.gyro_bias[3]>>
        mag == <<Get(raw_data, "mag_x", 0) - self.mag_bias[1],
                 Get(raw_data, "mag_y", 0) - self.mag_bias[2],
                 Get(raw_data, "mag_z", 0) - self.mag_bias[3]>>
        attitude == calculate_attitude(accel)
        magnetic == calculate_heading(self, mag, attitude.pitch, attitude.roll)
    IN filter_imu_data(self, Get(raw_data, "timestamp", 0),
                       accel, gyro, mag, attitude, magnetic)

get_motion_vector(self, imu_data, delta_time) ==
    LET accel_horizontal == Hypot(imu_data.acceleration_x, imu_data.acceleration_y)
    IN [heading |-> imu_data.heading,
        speed |-> IF self.previous_imu_data # None
                  THEN accel_horizontal * delta_time ELSE 0,
        acceleration |-> accel_horizontal]

set_magnetic_declination(self, declination) ==
    [self EXCEPT !.magnetic_declination = declination]

\* -------------------- src/gps_modulator/correction/path_corrector.py
\* confidences, in tenths
ConfidenceImuEnhanced == 9

ConfidenceBasic == 7

ConfidencePositionHold == 3

PathCorrector ==
    [last_valid_position |-> None,
     dead_reckoner |-> None,
     imu_handler |-> None,
     use_imu_correction |-> FALSE,
     imu_calibration_data |-> None]

\* _apply_basic_correction, handing the fix's own coordinates through when
\* it has no heading and speed
apply_basic_correction_passing_fix(self, current_point, imu_data) ==
    LET reckoner == IF self.dead_reckoner = None
                    THEN DeadReckoner(self.last_valid_position, 0)
                    ELSE self.dead_reckoner
        after == [self EXCEPT !.dead_reckoner = reckoner]
    IN IF Truthy(imu_data) /\ "heading" \in DOMAIN imu_data /\ "speed" \in DOMAIN imu_data
       THEN LET time_delta == current_point.timestamp - self.last_valid_position.timestamp
                corrected == compute_next_position(self.last_valid_position,
                                                   imu_data.heading,
                                                   imu_data.speed * time_delta)
            IN [self |-> after,
                ret |-> [latitude |-> corrected.latitude,
                         longitude |-> corrected.longitude,
                         timestamp |-> current_point.timestamp,
                         confidence |-> ConfidenceBasic,
                         correction_method |-> "basic_dead_reckoning"]]
       ELSE [self |-> after,
             ret |-> [latitude |-> current_point.latitude,
                      longitude |-> current_point.longitude,
                      timestamp |-> current_point.timestamp,
                      confidence |-> ConfidencePositionHold,
                      correction_method |-> "position_hold"]]

\* _apply_basic_correction, taking the speed as the distance: the elapsed
\* time forgotten
apply_basic_correction_unit_time(self, current_point, imu_data) ==
    LET reckoner == IF self.dead_reckoner = None
                    THEN DeadReckoner(self.last_valid_position, 0)
                    ELSE self.dead_reckoner
        after == [self EXCEPT !.dead_reckoner = reckoner]
    IN IF Truthy(imu_data) /\ "heading" \in DOMAIN imu_data /\ "speed" \in DOMAIN imu_data
       THEN LET corrected == compute_next_position(self.last_valid_position,
                                                   imu_data.heading, imu_data.speed)
            IN [self |-> after,
                ret |-> [latitude |-> corrected.latitude,
                         longitude |-> corrected.longitude,
                         timestamp |-> current_point.timestamp,
                         confidence |-> ConfidenceBasic,
                         correction_method |-> "basic_dead_reckoning"]]
       ELSE [self |-> after,
             ret |-> [latitude |-> self.last_valid_position.latitude,
                      longitude |-> self.last_valid_position.longitude,
                      timestamp |-> current_point.timestamp,
                      confidence |-> ConfidencePositionHold,
                      correction_method |-> "position_hold"]]

apply_basic_correction(self, current_point, imu_data) ==
    LET reckoner == IF self.dead_reckoner = None
                    THEN DeadReckoner(self.last_valid_position, 0)
                    ELSE self.dead_reckoner
        after == [self EXCEPT !.dead_reckoner = reckoner]
    IN IF Truthy(imu_data) /\ "heading" \in DOMAIN imu_data /\ "speed" \in DOMAIN imu_data
       THEN LET time_delta == current_point.timestamp - self.last_valid_position.timestamp
                distance == imu_data.speed * time_delta
                corrected == compute_next_position(self.last_valid_position,
                                                   imu_data.heading, distance)
            IN [self |-> after,
                ret |-> [latitude |-> corrected.latitude,
                         longitude |-> corrected.longitude,
                         timestamp |-> current_point.timestamp,
                         confidence |-> ConfidenceBasic,
                         correction_method |-> "basic_dead_reckoning"]]
       ELSE [self |-> after,
             ret |-> [latitude |-> self.last_valid_position.latitude,
                      longitude |-> self.last_valid_position.longitude,
                      timestamp |-> current_point.timestamp,
                      confidence |-> ConfidencePositionHold,
                      correction_method |-> "position_hold"]]

\* the end of the try block of _apply_imu_correction, for the outcome u of
\* the dead reckoner's update
apply_reckoner_update(processed, current_point, imu_data, u) ==
    LET updated == [processed EXCEPT !.dead_reckoner = u.self]
    IN IF IsRaised(u.ret)
       THEN apply_basic_correction(updated, current_point, imu_data)
       ELSE [self |-> updated,
             ret |-> [latitude |-> u.ret.latitude,
                      longitude |-> u.ret.longitude,
                      timestamp |-> current_point.timestamp,
                      confidence |-> ConfidenceImuEnhanced,
                      correction_method |-> "imu_enhanced"]]

\* apply_processed_sample without the except clause
apply_processed_sample_propagating(self, current_point, imu_data, p) ==
    LET processed == [self EXCEPT !.imu_handler = p.self]
        time_delta == current_point.timestamp - self.last_valid_position.timestamp
    IN IF IsRaised(p.ret)
       THEN [self |-> processed, ret |-> p.ret]
       ELSE IF time_delta <= 0
       THEN [self |-> processed, ret |-> self.last_valid_position]
       ELSE apply_reckoner_update(
                processed, current_point, imu_data,
                DeadReckoner_update(
                    IF self.dead_reckoner = None
                    THEN DeadReckoner(self.last_valid_position,
                                      Get(get_motion_vector(p.self, p.ret, time_delta),
                                          "speed", 0))
                    ELSE self.dead_reckoner,
                    p.ret, time_delta))

\* the try block of _apply_imu_correction and its except clause, for the
\* outcome p of the handler's process_imu_data
apply_processed_sample(self, current_point, imu_data, p) ==
    LET processed_imu == p.ret
        processed == [self EXCEPT !.imu_handler = p.self]
        time_delta == current_point.timestamp - self.last_valid_position.timestamp
    IN IF IsRaised(processed_imu)
       THEN apply_basic_correction(processed, current_point, imu_data)
       ELSE IF time_delta <= 0
       THEN [self |-> processed, ret |-> self.last_valid_position]
       ELSE LET motion_vector == get_motion_vector(p.self, processed_imu, time_delta)
                reckoner == IF self.dead_reckoner = None
                            THEN DeadReckoner(self.last_valid_position,
                                              Get(motion_vector, "speed", 0))
                            ELSE self.dead_reckoner
            IN apply_reckoner_update(
                   processed, current_point, imu_data,
                   DeadReckoner_update(reckoner, processed_imu, time_delta))

apply_imu_correction(self, current_point, imu_data) ==
    IF self.imu_handler = None \/ ~self.use_imu_correction
    THEN apply_basic_correction(self, current_point, imu_data)
    ELSE apply_processed_sample(self, current_point, imu_data,
                                process_imu_data(self.imu_handler, imu_data))

\* _apply_correction, adopting the estimate as the last valid position
apply_correction_adopting(self, current_point, imu_data) ==
    LET r == IF self.use_imu_correction /\ Truthy(imu_data)
             THEN apply_imu_correction(self, current_point, imu_data)
             ELSE apply_basic_correction(self, current_point, imu_data)
    IN [self |-> [r.self EXCEPT !.last_valid_position = r.ret], ret |-> r.ret]

apply_correction(self, current_point, imu_data) ==
    IF self.use_imu_correction /\ Truthy(imu_data)
    THEN apply_imu_correction(self, current_point, imu_data)
    ELSE apply_basic_correction(self, current_point, imu_data)

\* correct, not recording a trusted fix
correct_keeping_last_valid(self, current_point, is_spoofed, imu_data) ==
    LET fix == [latitude |-> current_point.latitude,
                longitude |-> current_point.longitude,
                timestamp |-> current_point.timestamp]
    IN IF self.last_valid_position = None
       THEN [self |-> [self EXCEPT !.last_valid_position = fix], ret |-> fix]
       ELSE IF ~is_spoofed
       THEN [self |-> self, ret |-> fix]
       ELSE apply_correction(self, current_point, imu_data)

\* correct, looking at is_spoofed before it looks for a last valid position:
\* a first fix flagged as spoofed is held at the origin
correct_flag_first(self, current_point, is_spoofed, imu_data) ==
    LET fix == [latitude |-> current_point.latitude,
                longitude |-> current_point.longitude,
                timestamp |-> current_point.timestamp]
    IN IF ~is_spoofed
       THEN [self |-> [self EXCEPT !.last_valid_position = fix], ret |-> fix]
       ELSE IF self.last_valid_position = None
       THEN [self |-> self,
             ret |-> [latitude |-> 0, longitude |-> 0,
                      timestamp |-> current_point.timestamp,
                      confidence |-> ConfidencePositionHold,
                      correction_method |-> "position_hold"]]
       ELSE apply_correction(self, current_point, imu_data)

correct(self, current_point, is_spoofed, imu_data) ==
    IF self.last_valid_position = None
    THEN LET first == [latitude |-> current_point.latitude,
                       longitude |-> current_point.longitude,
                       timestamp |-> current_point.timestamp]
         IN [self |-> [self EXCEPT !.last_valid_position = first], ret |-> first]
    ELSE IF ~is_spoofed
    THEN LET valid == [latitude |-> current_point.latitude,
                       longitude |-> current_point.longitude,
                       timestamp |-> current_point.timestamp]
         IN [self |-> [self EXCEPT !.last_valid_position = valid], ret |-> valid]
    ELSE apply_correction(self, current_point, imu_data)

enable_imu_correction(self, calibration_data) ==
    IF Truthy(calibration_data)
    THEN [self EXCEPT !.imu_handler = calibrate(EnhancedIMUHandler, calibration_data),
                      !.use_imu_correction = TRUE,
                      !.imu_calibration_data = calibration_data]
    ELSE [self EXCEPT !.imu_handler = EnhancedIMUHandler,
                      !.use_imu_correction = TRUE]

disable_imu_correction(self) ==
    [self EXCEPT !.use_imu_correction = FALSE, !.imu_handler = None]

PathCorrector_set_magnetic_declination(self, declination) ==
    IF self.imu_handler # None
    THEN [self EXCEPT !.imu_handler = set_magnetic_declination(@, declination)]
    ELSE self

reset(self) ==
    [self EXCEPT
        !.last_valid_position = None,
        !.dead_reckoner = None,
        !.imu_handler = IF self.imu_handler # None
                        THEN IF Truthy(self.imu_calibration_data)
                             THEN calibrate(EnhancedIMUHandler, self.imu_calibration_data)
                             ELSE EnhancedIMUHandler
                        ELSE @]

\* ------------------------------------------------------------ the state
\* engine:   a GeosignalValidationEngine, with the DetectionPipeline and the
\*           FallbackManager it was constructed with
\* trusted:  the last fix of the engine's stream on which the detector
\*           reported no anomaly (None before the first)
\* manager:  a FallbackManager used on its own
\* call:     the most recent call: what was called, the arguments it read,
\*           what it was made on and what it returned or raised
\* corrector: a PathCorrector
\* samples:  how many IMU samples its handlers have processed in the session
\* detector: a VelocityAnomalyDetector used on its own
\* reckoner: a DeadReckoner of the correction package used on its own
\* handler:  an EnhancedIMUHandler used on its own
VARIABLES engine, trusted, manager, corrector, samples, detector, reckoner,
          handler, call

vars == <<engine, trusted, manager, corrector, samples, detector, reckoner,
          handler, call>>

NoCall == [op |-> "none"]

Init ==
    /\ engine = GeosignalValidationEngine(DetectionPipeline, FallbackManager)
    /\ trusted = None
    /\ manager = FallbackManager
    /\ corrector = PathCorrector
    /\ samples = 0
    /\ detector = Detector(ThresholdVelocity)
    /\ reckoner = DeadReckoner([latitude |-> 0, longitude |-> 0], 0)
    /\ handler = EnhancedIMUHandler
    /\ call = NoCall

\* engine.validate(gps_data, imu_data)
Validate ==
    \E gps_data \in Fixes, imu_data \in EngineImuSamples :
        LET r == validate(engine, gps_data, imu_data)
            verdict == process_gps_point(engine.detection_pipeline, gps_data).ret.velocity_anomaly
            was_active == is_fallback_active(engine.fallback_manager)
        IN /\ engine' = r.self
           /\ trusted' = IF verdict THEN trusted ELSE gps_data
           /\ call' = [op |-> "validate",
                       gps_data |-> gps_data,
                       imu_data |-> IF was_active THEN None ELSE imu_data,
                       verdict |-> verdict,
                       was_active |-> was_active,
                       trusted |-> trusted,
                       ret |-> r.ret]
           /\ UNCHANGED <<reckoner, handler, detector, manager, corrector, samples>>

\* the caller of the engine tells the manager it constructed the engine with
\* that GPS is back: fallback_manager.handle_gps_restored(next_gps_position)
EngineGpsRestored ==
    \E next_gps_position \in Positions :
        LET r == handle_gps_restored(engine.fallback_manager, next_gps_position)
            was_active == is_fallback_active(engine.fallback_manager)
        IN /\ engine' = [engine EXCEPT !.fallback_manager = r.self]
           /\ call' = IF was_active
                      THEN [op |-> "handle_gps_restored", was_active |-> TRUE,
                            next_gps_position |-> next_gps_position, ret |-> r.ret]
                      ELSE [op |-> "handle_gps_restored", was_active |-> FALSE,
                            ret |-> r.ret]
           /\ UNCHANGED <<reckoner, handler, detector, trusted, manager, corrector, samples>>

EngineNext == Validate \/ EngineGpsRestored

SpecEngine == Init /\ [][EngineNext]_vars

\* manager.handle_fallback(present_position, imu_data, delta_time)
HandleFallback ==
    \E present_position \in Anchors, imu_data \in ImuSamples, delta_time \in DeltaTimes :
        LET r == handle_fallback(manager, present_position, imu_data, delta_time)
            was_active == is_fallback_active(manager)
        IN /\ manager' = r.self
           /\ call' = IF was_active
                      THEN [op |-> "handle_fallback", was_active |-> TRUE,
                            anchor_absent |-> present_position = None,
                            before |-> manager, ret |-> r.ret]
                      ELSE [op |-> "handle_fallback", was_active |-> FALSE,
                            anchor_absent |-> present_position = None,
                            present_position |-> present_position,
                            imu_data |-> imu_data,
                            delta_time |-> delta_time,
                            before |-> manager, ret |-> r.ret]
           /\ UNCHANGED <<reckoner, handler, detector, engine, trusted, corrector, samples>>

\* manager.handle_gps_restored(next_gps_position)
HandleGpsRestored ==
    \E next_gps_position \in Positions :
        LET r == handle_gps_restored(manager, next_gps_position)
        IN /\ manager' = r.self
           /\ call' = [op |-> "handle_gps_restored",
                       was_active |-> is_fallback_active(manager),
                       next_gps_position |-> next_gps_position,
                       before |-> manager, ret |-> r.ret]
           /\ UNCHANGED <<reckoner, handler, detector, engine, trusted, corrector, samples>>

ManagerNext == HandleFallback \/ HandleGpsRestored

SpecManager == Init /\ [][ManagerNext]_vars

\* the IMU data a caller passes with a fix: none, raw heading and speed, a
\* sample without heading, a nine-axis sample of the fix's time, or a
\* corrupt one
CorrectorImuData(current_point) ==
    {None} \cup [heading : Headings, speed : {MaxSpeed}] \cup {[speed |-> MaxSpeed]}
           \cup NineAxisSamples(current_point.timestamp)
           \cup {CorruptSample, CorruptRawSample}

\* whether this correct call hands its sample to the IMU handler
ProcessesSample(self, is_spoofed, imu_data) ==
    /\ self.last_valid_position # None
    /\ is_spoofed
    /\ self.use_imu_correction
    /\ self.imu_handler # None
    /\ Truthy(imu_data)

\* corrector.correct(current_point, is_spoofed, imu_data); a session
\* processes at most MaxSamples IMU samples
Correct ==
    \E current_point \in CorrectorFixes, is_spoofed \in BOOLEAN :
      \E imu_data \in CorrectorImuData(current_point) :
      \E r \in {correct(corrector, current_point, is_spoofed, imu_data)} :
        LET processes == ProcessesSample(corrector, is_spoofed, imu_data)
        IN /\ processes => samples < MaxSamples
           /\ samples' = IF processes THEN samples + 1 ELSE samples
           /\ corrector' = r.self
           /\ call' = IF is_spoofed
                      THEN [op |-> "correct",
                            current_point |-> current_point,
                            is_spoofed |-> is_spoofed,
                            imu_data |-> imu_data,
                            last_valid_before |-> corrector.last_valid_position,
                            ret |-> r.ret]
                      ELSE [op |-> "correct",
                            current_point |-> current_point,
                            is_spoofed |-> is_spoofed,
                            last_valid_before |-> corrector.last_valid_position,
                            ret |-> r.ret]
           /\ UNCHANGED <<reckoner, handler, detector, engine, trusted, manager>>

\* corrector.reset()
Reset ==
    /\ corrector' = reset(corrector)
    /\ call' = [op |-> "reset"]
    /\ UNCHANGED <<reckoner, handler, detector, engine, trusted, manager, samples>>

\* corrector.enable_imu_correction(calibration_data)
EnableImuCorrection ==
    \E calibration_data \in Calibrations :
        /\ corrector' = enable_imu_correction(corrector, calibration_data)
        /\ call' = [op |-> "enable_imu_correction"]
        /\ UNCHANGED <<reckoner, handler, detector, engine, trusted, manager, samples>>

\* corrector.disable_imu_correction()
DisableImuCorrection ==
    /\ corrector' = disable_imu_correction(corrector)
    /\ call' = [op |-> "disable_imu_correction"]
    /\ UNCHANGED <<reckoner, handler, detector, engine, trusted, manager, samples>>

CorrectorNext ==
    \/ Correct
    \/ Reset
    \/ EnableImuCorrection
    \/ DisableImuCorrection

SpecCorrector == Init /\ [][CorrectorNext]_vars

\* VelocityAnomalyDetector(threshold_velocity)
NewDetector ==
    \E threshold_velocity \in Thresholds :
        /\ detector' = Detector(threshold_velocity)
        /\ call' = [op |-> "new_detector"]
        /\ UNCHANGED <<reckoner, handler, engine, trusted, manager, corrector, samples>>

\* detector.detect(current_point)
Detect ==
    \E current_point \in DetectorFixes :
        LET r == Detector_detect(detector, current_point)
        IN /\ detector' = r.self
           /\ call' = [op |-> "detect",
                       after |-> call.op,
                       current_point |-> current_point,
                       previous_before |-> detector.previous_point,
                       ret |-> r.ret]
           /\ UNCHANGED <<reckoner, handler, engine, trusted, manager, corrector, samples>>

\* detector.reset()
DetectorReset ==
    /\ detector' = Detector_reset(detector)
    /\ call' = [op |-> "detector_reset"]
    /\ UNCHANGED <<reckoner, handler, engine, trusted, manager, corrector, samples>>

DetectorNext == NewDetector \/ Detect \/ DetectorReset

SpecDetector == Init /\ [][DetectorNext]_vars

\* the fixes of an outage: the corrector's two places, over a longer time
OutageFixes ==
    {f \in [latitude : Lats, longitude : Lons, timestamp : 0 .. MaxOutageTime] :
        f.latitude + f.longitude = 1}

\* the IMU data passed with a fix of an outage: none, or the nine-axis
\* sample of the fix's time with the field pointing east
OutageImuData(current_point) ==
    {None} \cup {s \in NineAxisSamples(current_point.timestamp) : s.mag_y = 1}

\* corrector.correct(current_point, is_spoofed, imu_data) during trusted
\* reception and outages; a session processes at most MaxOutageSamples IMU
\* samples.  The call also records the reckoner it found, whether the call
\* before it was made on a trusted fix, and for how long the reckoner has
\* been propagated by the unbroken run of imu_enhanced corrections it ends.
OutageCorrect ==
    \E current_point \in OutageFixes, is_spoofed \in BOOLEAN :
      \E imu_data \in OutageImuData(current_point) :
      \E r \in {correct(corrector, current_point, is_spoofed, imu_data)} :
        LET processes == ProcessesSample(corrector, is_spoofed, imu_data)
            enhanced == /\ "correction_method" \in DOMAIN r.ret
                        /\ r.ret.correction_method = "imu_enhanced"
            earlier == IF call.op = "correct" /\ call.is_spoofed
                       THEN call.propagated ELSE 0
        IN /\ processes => samples < MaxOutageSamples
           /\ samples' = IF processes THEN samples + 1 ELSE samples
           /\ corrector' = r.self
           /\ call' = IF is_spoofed
                      THEN [op |-> "correct",
                            current_point |-> current_point,
                            is_spoofed |-> is_spoofed,
                            imu_data |-> imu_data,
                            last_valid_before |-> corrector.last_valid_position,
                            reckoner_before |-> corrector.dead_reckoner,
                            after_trusted |-> call.op = "correct" /\ ~call.is_spoofed,
                            propagated |->
                                IF enhanced
                                THEN earlier + (current_point.timestamp
                                        - corrector.last_valid_position.timestamp)
                                ELSE 0,
                            ret |-> r.ret]
                      ELSE [op |-> "correct",
                            current_point |-> current_point,
                            is_spoofed |-> is_spoofed,
                            last_valid_before |-> corrector.last_valid_position,
                            ret |-> r.ret]
           /\ UNCHANGED <<reckoner, handler, detector, engine, trusted, manager>>

OutageNext == OutageCorrect \/ EnableImuCorrection

SpecOutage == Init /\ [][OutageNext]_vars

\* the positions a reckoner is started from: one in each key spelling, and
\* one an eastward step of one unit of distance away from the antimeridian
ReckonerPositions ==
    {[latitude |-> 0, longitude |-> 1],
     [lat |-> 1, lon |-> 1],
     [latitude |-> 0, longitude |-> HalfTurn - 2]}

\* the samples given to a reckoner's update: a heading with a speed, an
\* acceleration, both or neither, and a sample without heading
ReckonerSamples == [heading : Headings]
                     \cup [heading : Headings, speed : Speeds]
                     \cup [heading : Headings, acceleration : Accelerations]
                     \cup [heading : Headings, speed : Speeds,
                           acceleration : Accelerations]
                     \cup {[speed |-> MaxSpeed]}

\* DeadReckoner(initial_position, initial_velocity)
NewReckoner ==
    \E initial_position \in ReckonerPositions, initial_velocity \in Speeds :
        /\ reckoner' = DeadReckoner(initial_position, initial_velocity)
        /\ samples' = 0
        /\ call' = [op |-> "new_reckoner"]
        /\ UNCHANGED <<engine, trusted, manager, corrector, detector, handler>>

\* reckoner.update(imu_data, delta_time); a reckoner is given at most
\* MaxUpdates samples
ReckonerUpdate ==
    \E imu_data \in ReckonerSamples, delta_time \in DeltaTimes :
      \E r \in {DeadReckoner_update(reckoner, imu_data, delta_time)} :
        /\ samples < MaxUpdates
        /\ samples' = samples + 1
        /\ reckoner' = r.self
        /\ call' = [op |-> "update",
                    imu_data |-> imu_data,
                    delta_time |-> delta_time,
                    before |-> reckoner,
                    ret |-> r.ret]
        /\ UNCHANGED <<engine, trusted, manager, corrector, detector, handler>>

ReckonerNext == NewReckoner \/ ReckonerUpdate

SpecReckoner == Init /\ [][ReckonerNext]_vars

\* the nine-axis samples given to a handler at time t: one at rest with the
\* field pointing south, one turning left at 270 degrees per unit of time
\* with the field pointing east
TurningSamples(t) ==
    {[accel_x |-> 1, accel_y |-> 0, accel_z |-> 1,
      gyro_x |-> 0, gyro_y |-> 0, gyro_z |-> 0,
      mag_x |-> 0 - 1, mag_y |-> 0, mag_z |-> 0,
      timestamp |-> t],
     [accel_x |-> 1, accel_y |-> 0, accel_z |-> 1,
      gyro_x |-> 0, gyro_y |-> 0, gyro_z |-> 0 - 270,
      mag_x |-> 0, mag_y |-> 1, mag_z |-> 0,
      timestamp |-> t]}

\* EnhancedIMUHandler()
NewHandler ==
    /\ handler' = EnhancedIMUHandler
    /\ samples' = 0
    /\ call' = [op |-> "new_handler"]
    /\ UNCHANGED <<engine, trusted, manager, corrector, detector, reckoner>>

\* handler.process_imu_data(raw_data), the samples one unit of time apart;
\* a handler is given at most MaxWindowSamples samples
ProcessImuData ==
    \E raw_data \in TurningSamples(samples) :
      \E r \in {process_imu_data(handler, raw_data)} :
        /\ samples < MaxWindowSamples
        /\ samples' = samples + 1
        /\ handler' = r.self
        /\ call' = [op |-> "process_imu_data",
                    raw_data |-> raw_data,
                    before |-> handler,
                    ret |-> r.ret]
        /\ UNCHANGED <<engine, trusted, manager, corrector, detector, reckoner>>

HandlerNext == NewHandler \/ ProcessImuData

SpecHandler == Init /\ [][HandlerNext]_vars

\* ------------------------------------------------------------ the claims
IsPosition(r) == {"latitude", "longitude"} \subseteq DOMAIN r

Coordinates(p) == [latitude |-> p.latitude, longitude |-> p.longitude]

\* C1: every correct(fix, is_spoofed=False) call, in any state of the
\* corrector, returns a record whose latitude, longitude and timestamp are
\* the fix's, and leaves last_valid_position equal to that fix.
C1_TrustedFixVerbatim ==
    (call.op = "correct" /\ ~call.is_spoofed) =>
        /\ call.ret.latitude = call.current_point.latitude
        /\ call.ret.longitude = call.current_point.longitude
        /\ call.ret.timestamp = call.current_point.timestamp
        /\ corrector.last_valid_position =
               [latitude |-> call.current_point.latitude,
                longitude |-> call.current_point.longitude,
                timestamp |-> call.current_point.timestamp]

\* a trusted fix at another place than the last valid position, arriving
\* with an earlier timestamp at a corrector that has dead-reckoned with its
\* IMU handler
C1_Witness ==
    /\ call.op = "correct" /\ ~call.is_spoofed
    /\ call.last_valid_before # None
    /\ Coordinates(call.last_valid_before) # Coordinates(call.current_point)
    /\ call.current_point.timestamp < call.last_valid_before.timestamp
    /\ corrector.dead_reckoner # None
    /\ corrector.use_imu_correction
    /\ samples > 0
    /\ corrector.last_valid_position = call.current_point

\* C2: whenever the corrector holds no last valid position, on construction
\* or after reset(), correct(fix, is_spoofed, imu_data) returns the fix
\* verbatim and records it as last_valid_position, whatever is_spoofed and
\* imu_data are.
C2_FirstFixVerbatim ==
    (call.op = "correct" /\ call.last_valid_before = None) =>
        /\ call.ret = call.current_point
        /\ corrector.last_valid_position = call.current_point

\* a first fix after reset() of a corrector that had processed an IMU
\* sample, flagged as spoofed and accompanied by a nine-axis sample
C2_Witness ==
    /\ call.op = "correct" /\ call.last_valid_before = None
    /\ call.is_spoofed
    /\ "accel_x" \in DOMAIN call.imu_data
    /\ call.imu_data # CorruptSample
    /\ samples > 0
    /\ corrector.use_imu_correction
    /\ corrector.dead_reckoner = None
    /\ call.ret = call.current_point

\* C3: validate tags provenance from the detector's verdict: a fix on which
\* the detector reports no anomaly comes back with its own coordinates,
\* is_spoofed false and source gps, and becomes last_gps_point; only a fix
\* on which it reports an anomaly comes back with is_spoofed true and source
\* fallback.
C3_ProvenanceFollowsVerdict ==
    call.op = "validate" =>
        /\ ~call.verdict =>
              /\ IsPosition(call.ret)
              /\ Coordinates(call.ret) = Coordinates(call.gps_data)
              /\ call.ret.is_spoofed = FALSE
              /\ call.ret.source = "gps"
              /\ engine.last_gps_point = call.gps_data
        /\ (IsPosition(call.ret) /\ call.ret.source = "fallback") =>
              (call.verdict /\ call.ret.is_spoofed = TRUE)

\* C4: every validate call on well-formed fixes and IMU samples returns a
\* position record with latitude, longitude, timestamp and source; none
\* raises.
C4_ValidateNeverRaises ==
    call.op = "validate" =>
        /\ ~IsRaised(call.ret)
        /\ {"latitude", "longitude", "timestamp", "source"} \subseteq DOMAIN call.ret

\* C5: a validate call that processes a fix on which the detector reports no
\* anomaly while the fallback manager is Active leaves the manager Inactive.
C5_TrustedFixEndsFallback ==
    (call.op = "validate" /\ ~call.verdict /\ call.was_active) =>
        ~is_fallback_active(engine.fallback_manager)

\* C6: the estimate validate returns for an anomalous fix is dead-reckoned
\* from the last trusted position, the last fix the detector accepted: that
\* position is the anchor the manager records.
C6_AnchoredAtLastTrusted ==
    (call.op = "validate" /\ call.verdict /\ IsPosition(call.ret)) =>
        engine.fallback_manager.last_position = Coordinates(call.trusted)

\* C7: handle_fallback called while the manager is Active returns a position
\* estimate, never an absent value, which is the position its Dead Reckoner
\* has advanced to, and the manager stays Active.
C7_ContinuesWhileActive ==
    (call.op = "handle_fallback" /\ call.was_active) =>
        /\ call.ret # None
        /\ IsPosition(call.ret)
        /\ is_fallback_active(manager)
        /\ manager.reckoner.position = call.ret

\* the velocity and the position one update gives a reckoner created at
\* present_position with the sample's velocity (0 when it carries none)
FirstVelocity(imu_data, delta_time) ==
    LET initial == IF "velocity" \in DOMAIN imu_data THEN imu_data.velocity ELSE 0
    IN IF "acceleration" \in DOMAIN imu_data
       THEN initial + imu_data.acceleration * delta_time
       ELSE initial

FirstEstimate(present_position, imu_data, delta_time) ==
    LET lat == IF "lat" \in DOMAIN present_position
               THEN present_position.lat ELSE present_position.latitude
        lon == IF "lon" \in DOMAIN present_position
               THEN present_position.lon ELSE present_position.longitude
        distance == FirstVelocity(imu_data, delta_time) * delta_time
    IN CASE imu_data.heading = 0 -> [latitude |-> lat + distance, longitude |-> lon]
         [] imu_data.heading = 90 -> [latitude |-> lat, longitude |-> lon + 2 * distance]
         [] imu_data.heading = 180 -> [latitude |-> lat - distance, longitude |-> lon]
         [] imu_data.heading = 270 -> [latitude |-> lat, longitude |-> lon - 2 * distance]

\* C8: a new FallbackManager is Inactive with no last position;
\* handle_fallback(pos, imu, dt) called while Inactive makes it Active,
\* records pos as last position, creates a Dead Reckoner at pos with the
\* velocity imu.velocity (0 when absent), runs one update and returns that
\* update's estimate.
C8_Activation ==
    /\ call.op = "none" =>
          /\ ~is_fallback_active(manager)
          /\ manager.last_position = None
    /\ (call.op = "handle_fallback" /\ ~call.was_active /\ ~call.anchor_absent) =>
          /\ is_fallback_active(manager)
          /\ manager.last_position = call.present_position
          /\ call.ret = FirstEstimate(call.present_position, call.imu_data,
                                      call.delta_time)
          /\ manager.reckoner =
                 [position |-> call.ret,
                  velocity |-> FirstVelocity(call.imu_data, call.delta_time)]

\* an activation with a sample carrying velocity and acceleration heading
\* east over a positive time: the estimate lies east of the anchor
C8_Witness ==
    /\ call.op = "handle_fallback" /\ ~call.was_active /\ ~call.anchor_absent
    /\ call.before = FallbackManager
    /\ {"velocity", "acceleration"} \subseteq DOMAIN call.imu_data
    /\ call.imu_data.velocity > 0
    /\ call.imu_data.heading = 90
    /\ call.delta_time > 0
    /\ "latitude" \in DOMAIN call.present_position
    /\ call.ret.longitude > call.present_position.longitude
    /\ is_fallback_active(manager)

\* C9: handle_gps_restored(p) changes state only when the manager is Active:
\* then it becomes Inactive, the reckoner is discarded and last_position
\* becomes p; when it is Inactive, fallback_active, last_position and the
\* reckoner are all unchanged.
C9_GpsRestored ==
    call.op = "handle_gps_restored" =>
        IF is_fallback_active(call.before)
        THEN /\ ~is_fallback_active(manager)
             /\ manager.reckoner = None
             /\ manager.last_position = call.next_gps_position
        ELSE /\ manager.fallback_active = call.before.fallback_active
             /\ manager.last_position = call.before.last_position
             /\ manager.reckoner = call.before.reckoner

\* a restoration on the Inactive manager of an ended episode, which keeps
\* the position that episode's restoration recorded
C9_Witness ==
    /\ call.op = "handle_gps_restored"
    /\ ~is_fallback_active(call.before)
    /\ call.before.last_position # None
    /\ call.next_gps_position # call.before.last_position
    /\ manager.last_position = call.before.last_position

\* C10: after handle_gps_restored, the next handle_fallback(pos2, imu2, dt)
\* re-activates the manager as it activates a new one: the Dead Reckoner is
\* anchored at pos2 with the velocity of imu2, and nothing of the earlier
\* episode is in the manager or in the estimate.
C10_EpisodesRepeat ==
    (/\ call.op = "handle_fallback"
     /\ ~call.was_active
     /\ ~call.anchor_absent
     /\ call.before.last_position # None) =>
        LET fresh == handle_fallback(FallbackManager, call.present_position,
                                     call.imu_data, call.delta_time)
        IN /\ manager = fresh.self
           /\ call.ret = fresh.ret
           /\ manager.last_position = call.present_position
           /\ manager.reckoner.velocity =
                  FirstVelocity(call.imu_data, call.delta_time)

\* a second episode started somewhere else than where the first one was
\* restored, moving south
C10_Witness ==
    /\ call.op = "handle_fallback" /\ ~call.was_active /\ ~call.anchor_absent
    /\ call.before.last_position # None
    /\ call.before.last_position # call.present_position
    /\ call.imu_data.heading = 180
    /\ call.delta_time > 0
    /\ call.ret.latitude < Get(call.present_position, "latitude", 1)
    /\ is_fallback_active(manager)

\* C11: handle_fallback called with the anchor argument absent on a manager
\* that has never been given a position signals an error instead of
\* returning normally.
C11_AbsentAnchorSignalled ==
    (/\ call.op = "handle_fallback"
     /\ call.anchor_absent
     /\ call.before.last_position = None) => IsRaised(call.ret)

\* latitude and longitude of a fix in either key spelling
Lat(p) == IF "latitude" \in DOMAIN p THEN p.latitude ELSE p.lat

Lon(p) == IF "longitude" \in DOMAIN p THEN p.longitude ELSE p.lon

\* C12: whenever the detector retains no previous fix, on construction or
\* after reset(), detect(f) returns false for every fix f and retains f as
\* the previous fix; reset() and construction leave no previous fix.
C12_FirstFixNotFlagged ==
    /\ call.op \in {"none", "new_detector", "detector_reset"} =>
          detector.previous_point = None
    /\ (call.op = "detect" /\ call.previous_before = None) =>
          /\ call.ret = FALSE
          /\ detector.previous_point = call.current_point

\* the first fix after a reset, far from the origin, at a detector of
\* threshold 0
C12_Witness ==
    /\ call.op = "detect" /\ call.previous_before = None
    /\ call.after = "detector_reset"
    /\ Lat(call.current_point) = MaxLat
    /\ detector.threshold_velocity = 0
    /\ call.ret = FALSE
    /\ detector.previous_point = call.current_point

C14_StrictThreshold ==
    (/\ call.op = "detect"
     /\ call.previous_before # None
     /\ call.current_point.timestamp > call.previous_before.timestamp) =>
        LET dlat == Lat(call.current_point) - Lat(call.previous_before)
            dlon == Lon(call.current_point) - Lon(call.previous_before)
            dt == call.current_point.timestamp - call.previous_before.timestamp
            limit == detector.threshold_velocity * dt
        IN call.ret = (4 * dlat * dlat + dlon * dlon > 4 * limit * limit)

\* a fix whose implied speed equals a positive threshold: no anomaly
C14_Witness ==
    /\ call.op = "detect" /\ call.previous_before # None
    /\ detector.threshold_velocity > 0
    /\ call.current_point.timestamp > call.previous_before.timestamp
    /\ Lon(call.current_point) = Lon(call.previous_before)
    /\ Lat(call.current_point) - Lat(call.previous_before) =
           detector.threshold_velocity
             * (call.current_point.timestamp - call.previous_before.timestamp)
    /\ call.ret = FALSE

\* C15: velocity(prev, curr) is 0 whenever prev is absent or curr's timestamp
\* does not exceed prev's, whatever the distance between them; so a detector
\* of any threshold >= 0 returns false, and does not raise, for a fix whose
\* timestamp does not exceed the retained fix's, the retained fix itself
\* included.
C15_NoElapsedTimeNoAnomaly ==
    /\ \A curr \in DetectorFixes :
          /\ gps_math_compute_velocity(None, curr) = ZeroVelocity
          /\ \A prev \in DetectorFixes :
                curr.timestamp - prev.timestamp <= 0 =>
                    gps_math_compute_velocity(prev, curr) = ZeroVelocity
    /\ (/\ call.op = "detect"
        /\ call.previous_before # None
        /\ call.current_point.timestamp <= call.previous_before.timestamp) =>
           call.ret = FALSE

\* a fix far from the retained one and older than it, at a detector of
\* threshold 0
C15_Witness ==
    /\ call.op = "detect" /\ call.previous_before # None
    /\ call.current_point.timestamp < call.previous_before.timestamp
    /\ Lat(call.current_point) - Lat(call.previous_before) = MaxLat
    /\ detector.threshold_velocity = 0
    /\ call.ret = FALSE

\* a correct call on a fix flagged as spoofed that is not the first one
SpoofedNonFirst ==
    /\ call.op = "correct"
    /\ call.is_spoofed
    /\ call.last_valid_before # None

HasHeadingAndSpeed(imu_data) ==
    imu_data # None /\ {"heading", "speed"} \subseteq DOMAIN imu_data

\* position advanced from it along a heading due east or due south by a
\* distance, at the reference latitude
Advanced(position, heading, distance) ==
    CASE heading = 90 -> [latitude |-> position.latitude,
                          longitude |-> position.longitude + 2 * distance]
      [] heading = 180 -> [latitude |-> position.latitude - distance,
                           longitude |-> position.longitude]

\* C16: for a non-first fix flagged as spoofed with no usable IMU data
\* (imu_data absent, in either mode, or lacking heading or speed with IMU
\* correction disabled), correct returns the last valid position's
\* latitude and longitude, the fix's timestamp, method position_hold and
\* confidence 0.3, and keeps the last valid position.
C16_PositionHold ==
    (/\ SpoofedNonFirst
     /\ \/ call.imu_data = None
        \/ ~corrector.use_imu_correction /\ ~HasHeadingAndSpeed(call.imu_data)) =>
        /\ call.ret = [latitude |-> call.last_valid_before.latitude,
                       longitude |-> call.last_valid_before.longitude,
                       timestamp |-> call.current_point.timestamp,
                       confidence |-> ConfidencePositionHold,
                       correction_method |-> "position_hold"]
        /\ corrector.last_valid_position = call.last_valid_before

\* a spoofed fix at another place and time than the last valid one, with no
\* IMU data, at a corrector in IMU mode
C16_Witness ==
    /\ SpoofedNonFirst
    /\ call.imu_data = None
    /\ corrector.use_imu_correction
    /\ Coordinates(call.current_point) # Coordinates(call.last_valid_before)
    /\ call.current_point.timestamp > call.last_valid_before.timestamp
    /\ call.ret.correction_method = "position_hold"
    /\ Coordinates(call.ret) = Coordinates(call.last_valid_before)

\* C17: for a non-first fix flagged as spoofed, with IMU correction enabled
\* and an IMU sample whose processing does not fail, correct returns a
\* record with method imu_enhanced and confidence 0.9, whatever the fix's
\* timestamp.
C17_ImuEnhanced ==
    (/\ SpoofedNonFirst
     /\ corrector.use_imu_correction
     /\ Truthy(call.imu_data)
     /\ call.imu_data \notin {CorruptSample, CorruptRawSample}) =>
        /\ {"correction_method", "confidence"} \subseteq DOMAIN call.ret
        /\ call.ret.correction_method = "imu_enhanced"
        /\ call.ret.confidence = ConfidenceImuEnhanced

\* C18: for a non-first fix flagged as spoofed, with IMU correction disabled
\* and imu_data carrying raw heading and speed, correct returns method
\* basic_dead_reckoning with confidence 0.7, at the last valid position
\* advanced along heading by speed * (fix.timestamp - last_valid.timestamp).
C18_BasicDeadReckoning ==
    (/\ SpoofedNonFirst
     /\ ~corrector.use_imu_correction
     /\ HasHeadingAndSpeed(call.imu_data)) =>
        LET time_delta == call.current_point.timestamp
                            - call.last_valid_before.timestamp
            expected == Advanced(call.last_valid_before, call.imu_data.heading,
                                 call.imu_data.speed * time_delta)
        IN call.ret = [latitude |-> expected.latitude,
                       longitude |-> expected.longitude,
                       timestamp |-> call.current_point.timestamp,
                       confidence |-> ConfidenceBasic,
                       correction_method |-> "basic_dead_reckoning"]

\* a spoofed fix at the time of the last valid one, heading east: the
\* position is the last valid one, not advanced
C18_Witness ==
    /\ SpoofedNonFirst
    /\ ~corrector.use_imu_correction
    /\ HasHeadingAndSpeed(call.imu_data)
    /\ call.imu_data.heading = 90 /\ call.imu_data.speed > 0
    /\ call.current_point.timestamp = call.last_valid_before.timestamp
    /\ call.ret.correction_method = "basic_dead_reckoning"
    /\ Coordinates(call.ret) = Coordinates(call.last_valid_before)

\* C19: when a step of the IMU-enhanced path raises, correct does not
\* raise: it returns the basic path's result for the same fix and sample,
\* basic_dead_reckoning when the sample carries raw heading and speed,
\* position_hold otherwise.
C19_ImuFailureDegrades ==
    (/\ SpoofedNonFirst
     /\ corrector.use_imu_correction
     /\ call.imu_data \in {CorruptSample, CorruptRawSample}) =>
        /\ ~IsRaised(call.ret)
        /\ call.ret =
             IF HasHeadingAndSpeed(call.imu_data)
             THEN LET time_delta == call.current_point.timestamp
                                      - call.last_valid_before.timestamp
                      expected == Advanced(call.last_valid_before,
                                           call.imu_data.heading,
                                           call.imu_data.speed * time_delta)
                  IN [latitude |-> expected.latitude,
                      longitude |-> expected.longitude,
                      timestamp |-> call.current_point.timestamp,
                      confidence |-> ConfidenceBasic,
                      correction_method |-> "basic_dead_reckoning"]
             ELSE [latitude |-> call.last_valid_before.latitude,
                   longitude |-> call.last_valid_before.longitude,
                   timestamp |-> call.current_point.timestamp,
                   confidence |-> ConfidencePositionHold,
                   correction_method |-> "position_hold"]

\* a sample whose processing raises and which carries raw heading and
\* speed, in IMU mode: the basic path's dead reckoning comes back
C19_Witness ==
    /\ SpoofedNonFirst
    /\ corrector.use_imu_correction
    /\ call.imu_data = CorruptRawSample
    /\ call.current_point.timestamp > call.last_valid_before.timestamp
    /\ call.ret.correction_method = "basic_dead_reckoning"
    /\ call.ret.longitude > call.last_valid_before.longitude

\* C20: every record correct returns for a non-first fix flagged as
\* spoofed carries a method among imu_enhanced, basic_dead_reckoning and
\* position_hold, with the confidence fixed for it: 0.9, 0.7, 0.3.
C20_MethodAndConfidence ==
    SpoofedNonFirst =>
        /\ {"correction_method", "confidence"} \subseteq DOMAIN call.ret
        /\ \/ call.ret.correction_method = "imu_enhanced"
              /\ call.ret.confidence = ConfidenceImuEnhanced
           \/ call.ret.correction_method = "basic_dead_reckoning"
              /\ call.ret.confidence = ConfidenceBasic
           \/ call.ret.correction_method = "position_hold"
              /\ call.ret.confidence = ConfidencePositionHold

\* C21: every record correct returns carries the timestamp of the fix it
\* was called with, in every branch
C21_TimestampOfFix ==
    call.op = "correct" =>
        call.ret.timestamp = call.current_point.timestamp

\* C22: the correction of an anomalous fix whose timestamp does not exceed
\* the last valid fix's has the coordinates of the last valid position: no
\* elapsed time, no displacement
C22_NoElapsedTimeNoDisplacement ==
    (/\ SpoofedNonFirst
     /\ call.current_point.timestamp <= call.last_valid_before.timestamp) =>
        /\ IsPosition(call.ret)
        /\ Coordinates(call.ret) = Coordinates(call.last_valid_before)

\* C24: every longitude the reckoner's next-position computation returns
\* lies in (-180, 180] degrees: above -HalfTurn, at most HalfTurn
C24_LongitudeRange ==
    (call.op = "update" /\ ~IsRaised(call.ret)) =>
        /\ call.ret.longitude > 0 - HalfTurn
        /\ call.ret.longitude <= HalfTurn

C23_HeadingRange ==
    call.op = "process_imu_data" =>
        /\ call.ret.heading >= 0
        /\ call.ret.heading < 360

\* the heading a process_imu_data call appends to the history: the magnetic
\* heading of the sample, blended 0.8 : 0.2 with the previous heading turned
\* by the gyroscope when there is an earlier sample and time has passed
BlendedHeading(before, raw_data) ==
    LET magnetic == Atan2Deg(raw_data.mag_y, raw_data.mag_x)
        previous == before.previous_imu_data
    IN IF previous # None /\ raw_data.timestamp > previous.timestamp
       THEN (AlphaNum * (previous.heading
                           + raw_data.gyro_z * (raw_data.timestamp - previous.timestamp))
               + (AlphaDen - AlphaNum) * magnetic) \div AlphaDen
       ELSE magnetic

\* C26: after every process_imu_data call the heading history is the history
\* before the call with the call's blended heading appended, cut down to its
\* last max_history entries, and the heading returned is the mean of it
C26_SlidingWindow ==
    call.op = "process_imu_data" =>
        LET before == call.before.heading_history
            all == Append(before, BlendedHeading(call.before, call.raw_data))
            window == IF Len(all) <= MaxHistory
                      THEN all
                      ELSE SubSeq(all, Len(all) - MaxHistory + 1, Len(all))
        IN /\ handler.max_history = MaxHistory
           /\ Len(handler.heading_history) <= MaxHistory
           /\ handler.heading_history = window
           /\ call.ret.heading = MeanOf(window)

\* a call on a handler whose history is full: the oldest heading leaves
C26_Witness ==
    /\ call.op = "process_imu_data"
    /\ Len(call.before.heading_history) = MaxHistory
    /\ Len(handler.heading_history) = MaxHistory
    /\ handler.heading_history[1] = call.before.heading_history[2]
    /\ handler.heading_history # call.before.heading_history

\* C30: correct on an anomalous fix that is not the first leaves
\* last_valid_position as it was, whichever branch produces the estimate
C30_LastValidKept ==
    SpoofedNonFirst => corrector.last_valid_position = call.last_valid_before

\* an anomalous fix at another place than the last valid one, held at the
\* last valid position
C30_Witness ==
    /\ SpoofedNonFirst
    /\ call.ret.correction_method = "position_hold"
    /\ Coordinates(call.current_point) # Coordinates(call.last_valid_before)
    /\ Coordinates(call.ret) = Coordinates(call.last_valid_before)
    /\ corrector.dead_reckoner # None

\* a correct call that answered an anomalous fix with an imu_enhanced estimate
ImuEnhanced ==
    /\ SpoofedNonFirst
    /\ "correction_method" \in DOMAIN call.ret
    /\ call.ret.correction_method = "imu_enhanced"

\* the time the call measured: from the last valid fix to the fix
ElapsedSinceLastValid ==
    call.current_point.timestamp - call.last_valid_before.timestamp

\* C27: after an imu_enhanced correction the reckoner's velocity is the one
\* the call's motion vector gives: its speed, or the velocity the reckoner
\* had (the motion vector's speed for a reckoner created by the call)
\* increased by its acceleration over the elapsed time
C27_VelocityFromMotionVector ==
    ImuEnhanced =>
        LET motion_vector == get_motion_vector(corrector.imu_handler,
                                               corrector.imu_handler.previous_imu_data,
                                               ElapsedSinceLastValid)
            held == IF call.reckoner_before = None
                    THEN motion_vector.speed
                    ELSE call.reckoner_before.current_velocity
        IN \/ corrector.dead_reckoner.current_velocity = motion_vector.speed
           \/ corrector.dead_reckoner.current_velocity
                = held + motion_vector.acceleration * ElapsedSinceLastValid

\* C28: the imu_enhanced estimate for the first anomalous fix after trusted
\* fixes resumed, made with a reckoner an earlier episode left behind, is
\* the last valid position advanced along the processed heading by the
\* reckoner's velocity times the elapsed time
C28_PropagatedFromLastValid ==
    (ImuEnhanced /\ call.after_trusted /\ call.reckoner_before # None) =>
        Coordinates(call.ret)
          = compute_next_position(call.last_valid_before,
                                  corrector.imu_handler.previous_imu_data.heading,
                                  corrector.dead_reckoner.current_velocity
                                    * ElapsedSinceLastValid)

\* C29: at every imu_enhanced correction, the time over which the unbroken
\* run of imu_enhanced corrections it ends has propagated the reckoner is the
\* time from the last valid fix to the fix
C29_PropagatedTimeIsElapsedTime ==
    ImuEnhanced => call.propagated = ElapsedSinceLastValid

=============================================================================
